---- MODULE Spec2Model ----
(***************************************************************************)
(* A model of monitor_client_rs: the Client (src/client.rs), the           *)
(* Deployment builder and wire types (src/types.rs) and enum_as_string     *)
(* (src/helpers.rs).                                                       *)
(*                                                                         *)
(* Strings on which the code works character by character (the base URL,   *)
(* the serialized RestartMode) are sequences of one-character strings;     *)
(* strings the code only moves around are TLA+ strings.  An Option is a    *)
(* sequence of length at most one: None is <<>>, Some(x) is <<x>>.          *)
(***************************************************************************)
EXTENDS Integers, Sequences, FiniteSets, TLC

\* ---------------------------------------------------------------- bounds
\* the longest URL argument, in characters
MaxUrlLen == 3
\* the most builder calls before build()
MaxCalls == 3
\* the number of deployment identifiers the service can hold
MaxIds == 3

VARIABLES
    pc,           \* where the modelled program stands
    overflowChecks, \* whether the build checks integer overflow (debug) or wraps (release)
    args,         \* the arguments of the constructor call
    loginRequest, \* the request Client::login sent, None before
    loginOutcome, \* what the transport gave back to Client::login, None before
    client,       \* Option<Client>: the constructed Client { url, token }
    built,        \* the Client as it was when construction returned
    lastRequest,  \* Option: the request most recently handed to the transport
    lastCall,     \* Option: the single-request operation that issued it, with its result
    bulk,         \* the frame of the running delete_all_deployments_on_server call
    trace,        \* what that call has done so far: requests, answers, callbacks
    deployment,   \* DeploymentBuilder.deployment, and the Deployment build() returns
    calls         \* the builder methods called so far, in order

vars == <<pc, overflowChecks, args, loginRequest, loginOutcome, client, built,
          lastRequest, lastCall, bulk, trace, deployment, calls>>

clientVars == <<overflowChecks, args, loginRequest, loginOutcome, client, built>>
opVars == <<lastRequest, lastCall, bulk, trace>>
builderVars == <<deployment, calls>>

\* ---------------------------------------------------------------- Option
None == <<>>
Some(x) == <<x>>
IsSome(o) == Len(o) = 1
Unwrap(o) == o[1]

\* ------------------------------------------------------------ characters
\* the characters URL arguments are made of: two ASCII ones and one that
\* takes two bytes in UTF-8
UrlChars == {"h", "/", "e_acute"}
Utf8Len(c) == IF c \in {"h", "/"} THEN 1 ELSE 2

RECURSIVE ByteLen(_)
\* str::len: the length in bytes
ByteLen(s) == IF s = <<>> THEN 0 ELSE Utf8Len(Head(s)) + ByteLen(Tail(s))

\* str::chars().nth(n); n = -1 stands for usize::MAX, the wrapped 0 - 1
CharsNth(s, n) == IF n >= 0 /\ n < Len(s) THEN Some(s[n + 1]) ELSE None

RECURSIVE CharsWithin(_, _)
\* how many leading characters of s fit in n bytes exactly; -1 when byte n is
\* inside a character
CharsWithin(s, n) ==
    IF n = 0 THEN 0
    ELSE IF s = <<>> \/ Utf8Len(Head(s)) > n THEN -1
    ELSE LET r == CharsWithin(Tail(s), n - Utf8Len(Head(s)))
         IN IF r = -1 THEN -1 ELSE r + 1

Ok(v) == [tag |-> "Ok", val |-> v]
Err(v) == [tag |-> "Err", val |-> v]
Panic(why) == [tag |-> "Panic", val |-> why]

\* &s[..n]: panics when n is past the end or not on a character boundary
SliceTo(s, n) ==
    IF n > ByteLen(s) \/ CharsWithin(s, n) = -1
    THEN Panic("byte index is not a char boundary")
    ELSE Ok(SubSeq(s, 1, CharsWithin(s, n)))

\* ------------------------------------------------------ helpers and types
RestartModes == {"NoRestart", "UnlessStopped", "OnFailure", "Always"}

\* #[serde(rename = ...)] on each RestartMode variant
SerdeRename(mode) ==
    CASE mode = "NoRestart" -> <<"n", "o">>
      [] mode = "UnlessStopped" ->
            <<"u", "n", "l", "e", "s", "s", "-", "s", "t", "o", "p", "p", "e", "d">>
      [] mode = "OnFailure" -> <<"o", "n", "-", "f", "a", "i", "l", "u", "r", "e">>
      [] mode = "Always" -> <<"a", "l", "w", "a", "y", "s">>

\* serde_json::to_string of a unit variant: its name as a JSON string
serde_json_to_string(mode) == <<"\"">> \o SerdeRename(mode) \o <<"\"">>

\* str::replace(from, ""), from a single character
ReplaceWithEmpty(s, from) == SelectSeq(s, LAMBDA c : c # from)

enum_as_string_keeps_quotes(e) == serde_json_to_string(e)

\* enum_as_string
enum_as_string(e) == ReplaceWithEmpty(serde_json_to_string(e), "\"")

\* Deployment::default(), which DeploymentBuilder::new() wraps
DefaultDeployment ==
    [id |-> None, name |-> "", server_id |-> "", build_id |-> None,
     image |-> None, ports |-> None, volumes |-> None, environment |-> None,
     network |-> None, restart |-> None, container_user |-> None,
     docker_account |-> None]

Conversion(local, container) == [local |-> local, container |-> container]
EnvironmentVar(variable, value) == [variable |-> variable, value |-> value]

\* ---------------------------------------------------------- construction
\* every URL argument of at most MaxUrlLen characters, the empty one included
RECURSIVE StringsUpTo(_)
StringsUpTo(n) ==
    IF n = 0 THEN {<<>>}
    ELSE LET shorter == StringsUpTo(n - 1)
         IN shorter \cup {Append(s, c) : s \in {t \in shorter : Len(t) = n - 1},
                                            c \in UrlChars}

UrlInputs == StringsUpTo(MaxUrlLen)
TokenInputs == {"tokA", "tokB"}
Usernames == {"admin"}
Passwords == {"hunter2"}

\* reqwest::StatusCode::OK
StatusOK == 200

EmptyMap == [k \in {} |-> DefaultDeployment]

\* outcomes of one round trip, all of one shape: text is the raw body (or the
\* transport error's description), doc says what the body parses as, and
\* deployment / map hold the parsed value when doc names them
Outcome(kind, status, readable, doc, text, d, m) ==
    [kind |-> kind, status |-> status, readable |-> readable, doc |-> doc,
     text |-> text, deployment |-> d, map |-> m]
TransportFailure ==
    Outcome("transport", 0, FALSE, "text", "connection refused", DefaultDeployment, EmptyMap)
TextResponse(status, text) ==
    Outcome("response", status, TRUE, "text", text, DefaultDeployment, EmptyMap)
UnreadableResponse(status) ==
    Outcome("response", status, FALSE, "text", "", DefaultDeployment, EmptyMap)
DeploymentResponse(status, d) ==
    Outcome("response", status, TRUE, "deployment", "{deployment}", d, EmptyMap)
MapResponse(status, m) ==
    Outcome("response", status, TRUE, "map", "{map}", DefaultDeployment, m)

\* what the login request may get back: a token with 200, a refusal with 401
LoginOutcomes ==
    {TransportFailure}
    \cup {TextResponse(StatusOK, t) : t \in {"tokB", "tokC"}}
    \cup {TextResponse(401, "invalid credentials")}
    \cup {UnreadableResponse(st) : st \in {StatusOK, 401}}

\* Client::parse_url.  url.len() - 1 on an empty string overflows: a build
\* with overflow checks panics there, a build without wraps to usize::MAX
\* (written -1 here), for which chars().nth() is None.
parse_url(url, checks) ==
    LET len == ByteLen(url) IN
    IF len = 0 /\ checks THEN Panic("attempt to subtract with overflow")
    ELSE LET last == CharsNth(url, len - 1) IN
         IF ~IsSome(last) THEN Panic("called Option::unwrap() on a None value")
         ELSE IF Unwrap(last) = "/" THEN SliceTo(url, len - 1)
         ELSE Ok(url)

\* LoginCredentials::new
LoginCredentialsNew(username, password) ==
    [username |-> username, password |-> password]

\* the request Client::login builds: no Authorization header
LoginRequestOf(url, username, password) ==
    [method |-> "POST", url |-> url \o <<"/login/local">>, auth |-> None,
     contentType |-> None,
     json |-> Some(LoginCredentialsNew(username, password))]

\* Client::login: send().await.unwrap().text().await.unwrap()
login(outcome) ==
    IF outcome.kind = "transport" THEN Panic("unwrap on send error")
    ELSE IF ~outcome.readable THEN Panic("unwrap on text error")
    ELSE Ok(outcome.text)

NoOps == /\ lastRequest = None /\ lastCall = None /\ bulk = None /\ trace = <<>>
NoBuilder == /\ deployment = None /\ calls = <<>>

InitNew ==
    /\ pc = "start"
    /\ overflowChecks \in BOOLEAN
    /\ args = None
    /\ loginRequest = None
    /\ loginOutcome = None
    /\ client = None
    /\ built = None
    /\ NoOps
    /\ NoBuilder

\* Client::new
New(url, username, password, outcome) ==
    /\ pc = "start"
    /\ args' = Some([fn |-> "new", url |-> url, token |-> ""])
    /\ LET u == parse_url(url, overflowChecks) IN
       IF u.tag = "Panic"
       THEN /\ pc' = "halted"
            /\ UNCHANGED <<loginRequest, loginOutcome, client, built>>
       ELSE LET t == login(outcome) IN
            /\ loginRequest' = Some(LoginRequestOf(u.val, username, password))
            /\ loginOutcome' = Some(outcome)
            /\ IF t.tag = "Panic"
               THEN /\ pc' = "halted"
                    /\ UNCHANGED <<client, built>>
               ELSE /\ pc' = "constructed"
                    /\ client' = Some([url |-> u.val, token |-> t.val])
                    /\ built' = client'
    /\ UNCHANGED <<overflowChecks, opVars, builderVars>>

\* Client::new_with_token
NewWithToken(url, token) ==
    /\ pc = "start"
    /\ args' = Some([fn |-> "new_with_token", url |-> url, token |-> token])
    /\ LET u == parse_url(url, overflowChecks) IN
       IF u.tag = "Panic"
       THEN /\ pc' = "halted"
            /\ UNCHANGED <<client, built>>
       ELSE /\ pc' = "constructed"
            /\ client' = Some([url |-> u.val, token |-> token])
            /\ built' = client'
    /\ UNCHANGED <<overflowChecks, loginRequest, loginOutcome, opVars, builderVars>>

NextNew ==
    \/ \E url \in UrlInputs, un \in Usernames, pw \in Passwords,
          outcome \in LoginOutcomes : New(url, un, pw, outcome)
    \/ \E url \in UrlInputs, token \in TokenInputs : NewWithToken(url, token)

SpecNew == InitNew /\ [][NextNew]_vars

\* the URL a constructor is specified to store: the argument less one
\* trailing slash, if it has one
StrippedOnce(url) ==
    IF url # <<>> /\ url[Len(url)] = "/" THEN SubSeq(url, 1, Len(url) - 1) ELSE url

\* C5: for every URL passed to Client::new or Client::new_with_token,
\* normalization yields a result, and the stored base URL is the argument
\* with exactly one trailing slash removed, or the argument itself when it
\* does not end in a slash.
C5_StoredUrlIsStrippedOnce ==
    IsSome(args) =>
        /\ Unwrap(args).fn = "new_with_token" =>
              /\ IsSome(client)
              /\ Unwrap(client).url = StrippedOnce(Unwrap(args).url)
        /\ Unwrap(args).fn = "new" =>
              /\ IsSome(loginRequest)
              /\ IsSome(client) => Unwrap(client).url = StrippedOnce(Unwrap(args).url)

\* C6: Client::new produces no Client when the login transport call fails
\* and when the login endpoint answers with a non-success status; a Client
\* comes only from a successful login and carries that response's body text
\* as its token.
C6_NewHaltsUnlessLoginSucceeded ==
    (IsSome(args) /\ Unwrap(args).fn = "new" /\ IsSome(loginOutcome)) =>
        LET o == Unwrap(loginOutcome) IN
        /\ (o.kind = "transport" \/ o.status # StatusOK) => client = None
        /\ IsSome(client) =>
              /\ o.kind = "response" /\ o.status = StatusOK
              /\ Unwrap(client).token = o.text

\* ---------------------------------------------------------------- builder
Names == {"web", "db"}
ServerIds == {"s1", "s2"}
OptStrings == {None, Some("img")}
Locals == {"8080", "8081"}
Containers == {"80"}

InitBuilder ==
    /\ pc = "building"
    /\ deployment = DefaultDeployment
    /\ calls = <<>>
    /\ overflowChecks = FALSE
    /\ args = None
    /\ loginRequest = None
    /\ loginOutcome = None
    /\ client = None
    /\ built = None
    /\ NoOps

\* a builder method runs on a builder that build() has not consumed
Called(method, a) ==
    /\ pc = "building"
    /\ Len(calls) < MaxCalls
    /\ calls' = Append(calls, [method |-> method, args |-> a])
    /\ UNCHANGED <<pc, clientVars, opVars>>

name(n) ==
    /\ Called("name", <<n>>)
    /\ deployment' = [deployment EXCEPT !.name = n]

server_id(sid) ==
    /\ Called("server_id", <<sid>>)
    /\ deployment' = [deployment EXCEPT !.server_id = sid]

build_id(b) ==
    /\ Called("build_id", <<b>>)
    /\ deployment' = [deployment EXCEPT !.build_id = b]

image(i) ==
    /\ Called("image", <<i>>)
    /\ deployment' = [deployment EXCEPT !.image = i]

docker_account(a) ==
    /\ Called("docker_account", <<a>>)
    /\ deployment' = [deployment EXCEPT !.docker_account = a]

add_environment(variable, value) ==
    /\ Called("add_environment", <<variable, value>>)
    /\ LET env_var == EnvironmentVar(variable, value) IN
       deployment' =
          IF IsSome(deployment.environment)
          THEN [deployment EXCEPT
                  !.environment = Some(Append(Unwrap(deployment.environment), env_var))]
          ELSE [deployment EXCEPT !.environment = Some(<<env_var>>)]

add_port_overwrites(local, container) ==
    /\ Called("add_port", <<local, container>>)
    /\ deployment' = [deployment EXCEPT !.ports = Some(<<Conversion(local, container)>>)]

add_port(local, container) ==
    /\ Called("add_port", <<local, container>>)
    /\ LET port == Conversion(local, container) IN
       deployment' =
          IF IsSome(deployment.ports)
          THEN [deployment EXCEPT !.ports = Some(Append(Unwrap(deployment.ports), port))]
          ELSE [deployment EXCEPT !.ports = Some(<<port>>)]

add_volume(local, container) ==
    /\ Called("add_volume", <<local, container>>)
    /\ LET volume == Conversion(local, container) IN
       deployment' =
          IF IsSome(deployment.volumes)
          THEN [deployment EXCEPT !.volumes = Some(Append(Unwrap(deployment.volumes), volume))]
          ELSE [deployment EXCEPT !.volumes = Some(<<volume>>)]

restart(mode) ==
    /\ Called("restart", <<mode>>)
    /\ deployment' = [deployment EXCEPT !.restart = Some(enum_as_string(mode))]

network(n) ==
    /\ Called("network", <<n>>)
    /\ deployment' = [deployment EXCEPT !.network = Some(n)]

\* build(self): the builder is consumed and its deployment returned
build ==
    /\ pc = "building"
    /\ pc' = "built"
    /\ calls' = Append(calls, [method |-> "build", args |-> <<>>])
    /\ UNCHANGED <<deployment, clientVars, opVars>>

NextBuilder ==
    \/ \E n \in Names : name(n)
    \/ \E sid \in ServerIds : server_id(sid)
    \/ \E b \in OptStrings : build_id(b)
    \/ \E i \in OptStrings : image(i)
    \/ \E a \in OptStrings : docker_account(a)
    \/ \E l \in Locals, c \in Containers : add_environment(l, c)
    \/ \E l \in Locals, c \in Containers : add_port(l, c)
    \/ \E l \in Locals, c \in Containers : add_volume(l, c)
    \/ \E m \in RestartModes : restart(m)
    \/ \E n \in {"host"} : network(n)
    \/ build

SpecBuilder == InitBuilder /\ [][NextBuilder]_vars

\* the calls of one method, in call order
CallsOf(method) == SelectSeq(calls, LAMBDA c : c.method = method)

\* what a list field is specified to hold after the calls made so far
AddedConversions(method) ==
    LET cs == CallsOf(method) IN
    IF cs = <<>> THEN None
    ELSE Some([i \in 1..Len(cs) |-> Conversion(cs[i].args[1], cs[i].args[2])])

AddedEnvironment ==
    LET cs == CallsOf("add_environment") IN
    IF cs = <<>> THEN None
    ELSE Some([i \in 1..Len(cs) |-> EnvironmentVar(cs[i].args[1], cs[i].args[2])])

\* C8: after any sequence of builder calls, each list field (ports, volumes,
\* environment) is absent exactly when its add method was never called, and
\* otherwise holds the entries added, one per call, in call order; no other
\* builder method changes it.
C8_ListFieldsHoldTheAddedEntries ==
    pc \in {"building", "built"} =>
        /\ deployment.ports = AddedConversions("add_port")
        /\ deployment.volumes = AddedConversions("add_volume")
        /\ deployment.environment = AddedEnvironment
        /\ \A f \in {"ports", "volumes", "environment"} :
              IsSome(deployment[f]) => Unwrap(deployment[f]) # <<>>

\* two add_port calls with different arguments around another method's call,
\* then build(), with add_volume never called
C8_Witness ==
    /\ pc = "built"
    /\ Len(calls) = 4
    /\ calls[1].method = "add_port"
    /\ calls[2].method = "restart"
    /\ calls[3].method = "add_port"
    /\ calls[1].args # calls[3].args
    /\ Len(Unwrap(deployment.ports)) = 2
    /\ deployment.volumes = None

\* the wire strings the remote service expects
CanonicalWireString(mode) ==
    CASE mode = "NoRestart" -> <<"n", "o">>
      [] mode = "UnlessStopped" ->
            <<"u", "n", "l", "e", "s", "s", "-", "s", "t", "o", "p", "p", "e", "d">>
      [] mode = "OnFailure" -> <<"o", "n", "-", "f", "a", "i", "l", "u", "r", "e">>
      [] mode = "Always" -> <<"a", "l", "w", "a", "y", "s">>

\* C9: for every RestartMode variant enum_as_string yields the variant's
\* canonical wire string (no, unless-stopped, on-failure, always) with no
\* quote character in it, the four results are pairwise distinct, and
\* DeploymentBuilder::restart stores that string in Deployment.restart.
C9_RestartIsTheCanonicalWireString ==
    /\ \A m \in RestartModes :
          /\ enum_as_string(m) = CanonicalWireString(m)
          /\ \A i \in 1..Len(enum_as_string(m)) : enum_as_string(m)[i] # "\""
    /\ \A m1, m2 \in RestartModes : m1 # m2 => enum_as_string(m1) # enum_as_string(m2)
    /\ pc \in {"building", "built"} =>
          LET rs == CallsOf("restart") IN
          IF rs = <<>> THEN deployment.restart = None
          ELSE deployment.restart = Some(CanonicalWireString(rs[Len(rs)].args[1]))

\* restart(OnFailure) after restart(Always), then build()
C9_Witness ==
    /\ pc = "built"
    /\ Len(calls) = 3
    /\ calls[1] = [method |-> "restart", args |-> <<"Always">>]
    /\ calls[2] = [method |-> "restart", args |-> <<"OnFailure">>]
    /\ deployment.restart = Some(<<"o", "n", "-", "f", "a", "i", "l", "u", "r", "e">>)

\* ------------------------------------------------------- client requests
\* identifiers the service assigns, as the strings that go into endpoint paths
Ids == {ToString(i) : i \in 1..MaxIds}
\* identifiers a caller passes to deploy, get_deployment and delete_deployment
CallerIds == {"1", "9"}

\* a Deployment as the service returns it
ServerDeployment(id, sid) ==
    [DefaultDeployment EXCEPT !.id = Some(id), !.name = "web", !.server_id = sid]

\* every mapping from identifiers to deployments get_deployments can decode
DeploymentMaps ==
    UNION {{[k \in K |-> ServerDeployment(k, f[k])] : f \in [K -> ServerIds]} :
             K \in SUBSET Ids}
\* what a single-request operation may get back
CallOutcomes ==
    {TransportFailure}
    \cup {TextResponse(st, "not found") : st \in {StatusOK, 204, 404}}
    \cup {UnreadableResponse(st) : st \in {StatusOK, 404}}
    \cup {DeploymentResponse(st, ServerDeployment("1", "s1")) : st \in {StatusOK, 404}}
    \cup {MapResponse(StatusOK, [k \in {"1"} |-> ServerDeployment("1", "s1")])}

\* what the list request of a bulk delete may get back
ListOutcomes ==
    {TransportFailure, TextResponse(404, "not found"), UnreadableResponse(StatusOK),
     TextResponse(StatusOK, "not json"),
     DeploymentResponse(StatusOK, ServerDeployment("1", "s1"))}
    \cup {MapResponse(StatusOK, m) : m \in DeploymentMaps}

\* what a delete request of a bulk delete may get back
DeleteOutcomes ==
    {TransportFailure, TextResponse(StatusOK, "deleted"), TextResponse(404, "not found"),
     UnreadableResponse(StatusOK)}

\* format!("Bearer {}", self.token)
Bearer(token) == <<"Bearer ", token>>
\* Display of a StatusCode starts with the code's digits
StatusDisplay(status) == ToString(status)

\* Response::json::<R>(): the body read and parsed as R
ResponseJson(o, R) ==
    IF ~o.readable THEN Err("error reading body")
    ELSE IF o.doc # R THEN Err("error decoding response body")
    ELSE IF R = "deployment" THEN Ok(o.deployment)
    ELSE Ok(o.map)

\* Response::text()
ResponseText(o) ==
    IF ~o.readable THEN Err("error reading body") ELSE Ok(o.text)

\* Client::get, the request
get_send(self, endpoint) ==
    [method |-> "GET", url |-> self.url \o endpoint,
     auth |-> Some(Bearer(self.token)), contentType |-> None, json |-> None]

\* Client::get, the match on the outcome
get_match(o, R) ==
    IF o.kind = "transport" THEN Err(<<o.text>>)
    ELSE IF o.status = StatusOK
         THEN LET j == ResponseJson(o, R) IN
              IF j.tag = "Ok" THEN Ok(j.val)
              ELSE Err(<<StatusDisplay(o.status), ": ", j.val>>)
         ELSE LET t == ResponseText(o) IN
              IF t.tag = "Ok" THEN Err(<<StatusDisplay(o.status), ": ", t.val>>)
              ELSE Err(<<StatusDisplay(o.status), ": ", t.val>>)

\* Client::get_string, the request
get_string_send(self, endpoint) ==
    [method |-> "GET", url |-> self.url \o endpoint,
     auth |-> Some(Bearer(self.token)), contentType |-> None, json |-> None]

\* Client::get_string, the match on the outcome
get_string_match(o) ==
    IF o.kind = "transport" THEN Err(<<o.text>>)
    ELSE IF o.status = StatusOK
         THEN LET t == ResponseText(o) IN
              IF t.tag = "Ok" THEN Ok(t.val)
              ELSE Err(<<StatusDisplay(o.status), ": ", t.val>>)
         ELSE LET t == ResponseText(o) IN
              IF t.tag = "Ok" THEN Err(<<StatusDisplay(o.status), ": ", t.val>>)
              ELSE Err(<<StatusDisplay(o.status), ": ", t.val>>)

post_send_without_token(self, endpoint, body) ==
    [method |-> "POST", url |-> self.url \o endpoint,
     auth |-> None, contentType |-> Some("application/json"), json |-> Some(body)]

\* Client::post, the request
post_send(self, endpoint, body) ==
    [method |-> "POST", url |-> self.url \o endpoint,
     auth |-> Some(Bearer(self.token)), contentType |-> Some("application/json"),
     json |-> Some(body)]

\* Client::post, the match on the outcome
post_match(o, R) ==
    IF o.kind = "transport" THEN Err(<<o.text>>)
    ELSE IF o.status = StatusOK
         THEN LET j == ResponseJson(o, R) IN
              IF j.tag = "Ok" THEN Ok(j.val)
              ELSE Err(<<StatusDisplay(o.status), ": ", j.val>>)
         ELSE LET t == ResponseText(o) IN
              IF t.tag = "Ok" THEN Err(<<StatusDisplay(o.status), ": ", t.val>>)
              ELSE Err(<<StatusDisplay(o.status), ": ", t.val>>)

\* Client::delete_string, the request
delete_string_send(self, endpoint) ==
    [method |-> "DELETE", url |-> self.url \o endpoint,
     auth |-> Some(Bearer(self.token)), contentType |-> None, json |-> None]

delete_string_match_any_2xx(o) ==
    IF o.kind = "transport" THEN Err(<<o.text>>)
    ELSE IF o.status \in 200..299 /\ o.readable THEN Ok(o.text)
    ELSE Err(<<StatusDisplay(o.status), ": ", ResponseText(o).val>>)

\* Client::delete_string, the match on the outcome
delete_string_match(o) ==
    IF o.kind = "transport" THEN Err(<<o.text>>)
    ELSE IF o.status = StatusOK
         THEN LET t == ResponseText(o) IN
              IF t.tag = "Ok" THEN Ok(t.val)
              ELSE Err(<<StatusDisplay(o.status), ": ", t.val>>)
         ELSE LET t == ResponseText(o) IN
              IF t.tag = "Ok" THEN Err(<<StatusDisplay(o.status), ": ", t.val>>)
              ELSE Err(<<StatusDisplay(o.status), ": ", t.val>>)

\* Deployment::into_create_body
into_create_body(d) == [deployment |-> d]

\* the endpoint each operation formats
create_deployment_endpoint == <<"/api/deployment/create">>
deploy_endpoint(deployment_id) == <<"/api/deployment/", deployment_id, "/deploy">>
get_deployment_endpoint(deployment_id) == <<"/api/deployment/", deployment_id>>
delete_deployment_endpoint(deployment_id) == <<"/api/deployment/", deployment_id, "/delete">>
get_deployments_endpoint == <<"/api/deployments">>

\* ------------------------------------------------ single-request operations
\* the clients the constructors leave behind for the URL and token arguments
\* used here: new_with_token("h", "tokA") and one logged in at "h//"
ConstructedClients ==
    {Some([url |-> parse_url(<<"h">>, FALSE).val, token |-> "tokA"]),
     Some([url |-> parse_url(<<"h", "/", "/">>, FALSE).val, token |-> "tokB"])}

CreateInputs == {[DefaultDeployment EXCEPT !.name = "web", !.server_id = "s1"]}

Init ==
    /\ pc = "ready"
    /\ client \in ConstructedClients
    /\ built = client
    /\ overflowChecks = FALSE
    /\ args = None
    /\ loginRequest = None
    /\ loginOutcome = None
    /\ NoOps
    /\ NoBuilder

self == Unwrap(client)

\* one operation called on the Client, from its request to its result; it
\* reads the Client and touches nothing else
Call(op, id, req, o, result) ==
    /\ pc = "ready"
    /\ IsSome(client)
    /\ lastRequest' = Some([op |-> op, id |-> id, req |-> req])
    /\ lastCall' = Some([op |-> op, id |-> id, outcome |-> o, result |-> result])
    /\ UNCHANGED <<pc, clientVars, bulk, trace, builderVars>>

create_deployment(d, o) ==
    Call("create_deployment", "",
         post_send(self, create_deployment_endpoint, into_create_body(d)),
         o, post_match(o, "deployment"))

deploy(deployment_id, o) ==
    Call("deploy", deployment_id,
         get_string_send(self, deploy_endpoint(deployment_id)),
         o, get_string_match(o))

get_deployment(deployment_id, o) ==
    Call("get_deployment", deployment_id,
         get_send(self, get_deployment_endpoint(deployment_id)),
         o, get_match(o, "deployment"))

delete_deployment(deployment_id, o) ==
    Call("delete_deployment", deployment_id,
         delete_string_send(self, delete_deployment_endpoint(deployment_id)),
         o, delete_string_match(o))

get_deployments(o) ==
    Call("get_deployments", "",
         get_send(self, get_deployments_endpoint),
         o, get_match(o, "map"))

\* ------------------------------------------- delete_all_deployments_on_server
\* what the call does, in order
Requested(op, key, req) ==
    [ev |-> "request", op |-> op, key |-> key, req |-> Some(req), val |-> <<>>, dep |-> None]
Answered(op, key, r) ==
    [ev |-> IF r.tag = "Ok" THEN "ok" ELSE "err", op |-> op, key |-> key, req |-> None,
     val |-> IF r.tag = "Ok" THEN <<>> ELSE r.val, dep |-> None]
CalledBack(key, d) ==
    [ev |-> "callback", op |-> "on_delete", key |-> key, req |-> None, val |-> <<>>,
     dep |-> Some(d)]

\* the orders a HashMap may be iterated in
Orders == {s \in [1..MaxIds -> Ids] : \A i, j \in 1..MaxIds : s[i] = s[j] => i = j}

\* HashMap::into_iter in the given order
into_iter(m, order) ==
    LET keys == SelectSeq(order, LAMBDA k : k \in DOMAIN m)
    IN [i \in 1..Len(keys) |-> <<keys[i], m[keys[i]]>>]

filter_keeps_all(entries, server_id_arg) == entries

\* .filter(|(_, d)| d.server_id == server_id).collect()
filter(entries, server_id_arg) ==
    SelectSeq(entries, LAMBDA e : e[2].server_id = server_id_arg)

\* the frame of a call: its arguments, the decoded mapping, the Vec of
\* matched entries, those not yet deleted, and the value returned
Frame(server_id_arg, on_delete) ==
    [server_id |-> server_id_arg, on_delete |-> on_delete, listed |-> None,
     matched |-> <<>>, deployments |-> <<>>, result |-> None]

after_list_ignores_error(b, r, order) ==
    IF r.tag = "Err"
    THEN [b EXCEPT !.result = Some(Ok(<<>>))]
    ELSE LET deployments == filter(into_iter(r.val, order), b.server_id)
         IN [b EXCEPT !.listed = Some(r.val),
                      !.matched = deployments,
                      !.deployments = deployments,
                      !.result = IF deployments = <<>> THEN Some(Ok(<<>>)) ELSE None]

\* self.get_deployments().await? and the collect: an Err is returned, an Ok
\* mapping is filtered; with nothing to delete the call returns Ok(())
after_list(b, r, order) ==
    IF r.tag = "Err"
    THEN [b EXCEPT !.result = Some(r)]
    ELSE LET deployments == filter(into_iter(r.val, order), b.server_id)
         IN [b EXCEPT !.listed = Some(r.val),
                      !.matched = deployments,
                      !.deployments = deployments,
                      !.result = IF deployments = <<>> THEN Some(Ok(<<>>)) ELSE None]

after_delete_continues_on_failure(b, r) ==
    LET rest == Tail(b.deployments)
    IN [frame |-> [b EXCEPT !.deployments = rest,
                            !.result = IF rest = <<>> THEN Some(Ok(<<>>)) ELSE None],
        callbacks |-> IF b.on_delete /\ r.tag = "Ok"
                      THEN <<CalledBack(b.deployments[1][1], b.deployments[1][2])>>
                      ELSE <<>>]

after_delete_calls_back_first(b, r) ==
    LET rest == Tail(b.deployments)
        callbacks == IF b.on_delete
                     THEN <<CalledBack(b.deployments[1][1], b.deployments[1][2])>>
                     ELSE <<>>
    IN IF r.tag = "Err"
       THEN [frame |-> [b EXCEPT !.result = Some(r)], callbacks |-> callbacks]
       ELSE [frame |-> [b EXCEPT !.deployments = rest,
                                 !.result = IF rest = <<>> THEN Some(Ok(<<>>)) ELSE None],
             callbacks |-> callbacks]

\* one turn of either loop, after self.delete_deployment(&id).await: an Err
\* is returned at once; on Ok the callback, if any, gets the deployment, and
\* the loop goes on to the next entry or the call returns Ok(())
after_delete(b, r) ==
    LET rest == Tail(b.deployments)
    IN IF r.tag = "Err"
       THEN [frame |-> [b EXCEPT !.result = Some(r)], callbacks |-> <<>>]
       ELSE [frame |-> [b EXCEPT !.deployments = rest,
                                 !.result = IF rest = <<>> THEN Some(Ok(<<>>)) ELSE None],
             callbacks |-> IF b.on_delete
                           THEN <<CalledBack(b.deployments[1][1], b.deployments[1][2])>>
                           ELSE <<>>]

\* the loop's next delete_deployment request, when the call has not returned
NextDelete(b, events) ==
    IF IsSome(b.result)
    THEN /\ pc' = "ready"
         /\ trace' = events
         /\ UNCHANGED lastRequest
    ELSE LET key == b.deployments[1][1]
             req == delete_string_send(self, delete_deployment_endpoint(key))
         IN /\ pc' = "awaiting_delete"
            /\ trace' = Append(events, Requested("delete_deployment", key, req))
            /\ lastRequest' = Some([op |-> "delete_deployment", id |-> key, req |-> req])

\* the call, up to its first await: the get_deployments request is out
delete_all_deployments_on_server(server_id_arg, on_delete) ==
    /\ pc = "ready"
    /\ IsSome(client)
    /\ LET req == get_send(self, get_deployments_endpoint) IN
       /\ lastRequest' = Some([op |-> "get_deployments", id |-> "", req |-> req])
       /\ trace' = <<Requested("get_deployments", "", req)>>
    /\ bulk' = Some(Frame(server_id_arg, on_delete))
    /\ pc' = "awaiting_list"
    /\ UNCHANGED <<clientVars, lastCall, builderVars>>

\* the get_deployments answer arrives; the call runs to its next await or returns
Listed(o, order) ==
    /\ pc = "awaiting_list"
    /\ LET r == get_match(o, "map")
           b == after_list(Unwrap(bulk), r, order)
       IN /\ bulk' = Some(b)
          /\ NextDelete(b, Append(trace, Answered("get_deployments", "", r)))
    /\ UNCHANGED <<clientVars, lastCall, builderVars>>

\* a delete_deployment answer arrives; the call runs to its next await or returns
Deleted(o) ==
    /\ pc = "awaiting_delete"
    /\ LET r == delete_string_match(o)
           key == Unwrap(bulk).deployments[1][1]
           step == after_delete(Unwrap(bulk), r)
       IN /\ bulk' = Some(step.frame)
          /\ NextDelete(step.frame,
                        Append(trace, Answered("delete_deployment", key, r))
                            \o step.callbacks)
    /\ UNCHANGED <<clientVars, lastCall, builderVars>>

\* the request each single-request operation sends
request_of(op, id) ==
    CASE op = "create_deployment" ->
            post_send(self, create_deployment_endpoint,
                      into_create_body(CHOOSE d \in CreateInputs : TRUE))
      [] op = "deploy" -> get_string_send(self, deploy_endpoint(id))
      [] op = "get_deployment" -> get_send(self, get_deployment_endpoint(id))
      [] op = "delete_deployment" -> delete_string_send(self, delete_deployment_endpoint(id))
      [] op = "get_deployments" -> get_send(self, get_deployments_endpoint)

\* an operation called on a clone of the Client while this call is anywhere:
\* its request goes out; its answer returns to that caller
cloned_call(op, id) ==
    /\ IsSome(client)
    /\ lastRequest' = Some([op |-> op, id |-> id, req |-> request_of(op, id)])
    /\ UNCHANGED <<pc, clientVars, lastCall, bulk, trace, builderVars>>

NextCalls ==
    \/ \E d \in CreateInputs, o \in CallOutcomes : create_deployment(d, o)
    \/ \E id \in CallerIds, o \in CallOutcomes : deploy(id, o)
    \/ \E id \in CallerIds, o \in CallOutcomes : get_deployment(id, o)
    \/ \E id \in CallerIds, o \in CallOutcomes : delete_deployment(id, o)
    \/ \E o \in CallOutcomes : get_deployments(o)

\* the single-request operations, called one after another
SpecCalls == Init /\ [][NextCalls]_vars

Next ==
    \/ \E op \in {"create_deployment", "get_deployments"} : cloned_call(op, "")
    \/ \E op \in {"deploy", "get_deployment", "delete_deployment"}, id \in CallerIds :
          cloned_call(op, id)
    \/ \E sid \in ServerIds, cb \in BOOLEAN : delete_all_deployments_on_server(sid, cb)
    \/ \E o \in ListOutcomes, order \in Orders : Listed(o, order)
    \/ \E o \in DeleteOutcomes : Deleted(o)

\* bulk deletes, with operations on clones of the Client in between their steps
Spec == Init /\ [][Next]_vars

\* ------------------------------------------------------------------ claims
Elems(seq) == {seq[i] : i \in DOMAIN seq}
Last(seq) == seq[Len(seq)]
Bulk == Unwrap(bulk)
Returned == pc = "ready" /\ IsSome(bulk)
DeleteRequests ==
    SelectSeq(trace, LAMBDA e : e.ev = "request" /\ e.op = "delete_deployment")
DeleteAnswers(ev) ==
    SelectSeq(trace, LAMBDA e : e.ev = ev /\ e.op = "delete_deployment")
\* the keys of the listed entries whose server_id is the argument
Matching ==
    IF IsSome(Bulk.listed)
    THEN {k \in DOMAIN Unwrap(Bulk.listed) :
            Unwrap(Bulk.listed)[k].server_id = Bulk.server_id}
    ELSE {}

\* C1: when delete_all_deployments_on_server has returned and no request of
\* it failed, it has returned Ok(()) and has issued exactly one DELETE per
\* listed entry whose server_id equals the argument, at
\* {base}/api/deployment/{key}/delete for that entry's key, and none for any
\* other entry.
C1_OneDeletePerMatchingEntry ==
    (Returned /\ \A i \in 1..Len(trace) : trace[i].ev # "err") =>
        /\ Bulk.result = Some(Ok(<<>>))
        /\ Len(DeleteRequests) = Cardinality(Matching)
        /\ {DeleteRequests[i].key : i \in 1..Len(DeleteRequests)} = Matching
        /\ \A i \in 1..Len(DeleteRequests) :
              LET e == DeleteRequests[i] IN
              /\ Unwrap(e.req).method = "DELETE"
              /\ Unwrap(e.req).url =
                    Unwrap(built).url \o <<"/api/deployment/", e.key, "/delete">>

\* three entries listed, two on the target server, both deleted
C1_Witness ==
    /\ Returned
    /\ \A i \in 1..Len(trace) : trace[i].ev # "err"
    /\ IsSome(Bulk.listed)
    /\ Cardinality(DOMAIN Unwrap(Bulk.listed)) = 3
    /\ Cardinality(Matching) = 2
    /\ Len(DeleteRequests) = 2

\* C2: with a callback supplied, every successful delete is followed at once
\* (before any further request) by one callback invocation with that
\* deployment's record, and every callback invocation follows such a delete:
\* the callback invocations are the successful deletes, in order.
C2_CallbackPerSuccessfulDelete ==
    (IsSome(bulk) /\ Bulk.on_delete) =>
        /\ \A i \in 1..Len(trace) :
              (trace[i].ev = "ok" /\ trace[i].op = "delete_deployment") =>
                  /\ i < Len(trace)
                  /\ trace[i + 1].ev = "callback"
                  /\ trace[i + 1].key = trace[i].key
                  /\ trace[i + 1].dep = Some(Unwrap(Bulk.listed)[trace[i].key])
        /\ \A i \in 1..Len(trace) :
              trace[i].ev = "callback" =>
                  /\ i > 1
                  /\ trace[i - 1].ev = "ok"
                  /\ trace[i - 1].op = "delete_deployment"
                  /\ trace[i - 1].key = trace[i].key

\* two deletes succeeded and were called back, the third failed
C2_Witness ==
    /\ Returned
    /\ Bulk.on_delete
    /\ Len(SelectSeq(trace, LAMBDA e : e.ev = "callback")) = 2
    /\ Len(DeleteRequests) = 3
    /\ Last(trace).ev = "err"

\* C3: once a delete request of delete_all_deployments_on_server has failed,
\* the call has returned that delete's error, the failing answer is the last
\* thing the call did, all deletes before it succeeded and stay as they are
\* (the call sends nothing but its list request and deletes), and the matched
\* entries after the failing one got no request.
C3_AbortsOnFirstDeleteFailure ==
    (IsSome(bulk) /\ DeleteAnswers("err") # <<>>) =>
        LET k == Len(DeleteRequests) IN
        /\ Last(trace).ev = "err"
        /\ Last(trace).op = "delete_deployment"
        /\ Len(DeleteAnswers("err")) = 1
        /\ pc = "ready"
        /\ Bulk.result = Some(Err(Last(trace).val))
        /\ Len(DeleteAnswers("ok")) = k - 1
        /\ \A j \in 1..k : DeleteRequests[j].key = Bulk.matched[j][1]
        /\ \A j \in (k + 1)..Len(Bulk.matched) :
              \A i \in 1..k : DeleteRequests[i].key # Bulk.matched[j][1]
        /\ \A i \in 1..Len(trace) :
              trace[i].ev = "request" =>
                  Unwrap(trace[i].req).method = IF i = 1 THEN "GET" ELSE "DELETE"

\* without a callback: three matched, the second delete failed with 404, the
\* third was never tried
C3_Witness ==
    /\ Returned
    /\ ~Bulk.on_delete
    /\ Len(Bulk.matched) = 3
    /\ Len(DeleteRequests) = 2
    /\ Len(DeleteAnswers("ok")) = 1
    /\ Bulk.result = Some(Err(<<"404", ": ", "not found">>))

\* the type each operation decodes a 200 body into
ExpectedDoc(op) ==
    CASE op \in {"create_deployment", "get_deployment"} -> "deployment"
      [] op = "get_deployments" -> "map"
      [] op \in {"deploy", "delete_deployment"} -> "text"

\* C4: every operation returns Ok or Err, never panics: Err built from the
\* transport error on a transport failure; Err naming the status and the body
\* text (or the body error) on any status other than 200; on 200, Ok with the
\* decoded body when it decodes into the operation's type, and otherwise Err
\* naming the status and the decode error.
C4_ResponseClassification ==
    IsSome(lastCall) =>
        LET o == Unwrap(lastCall).outcome
            r == Unwrap(lastCall).result
            doc == ExpectedDoc(Unwrap(lastCall).op)
        IN
        /\ r.tag \in {"Ok", "Err"}
        /\ o.kind = "transport" => (r.tag = "Err" /\ r.val = <<o.text>>)
        /\ (o.kind = "response" /\ o.status # 200) =>
              /\ r.tag = "Err"
              /\ ToString(o.status) \in Elems(r.val)
              /\ (IF o.readable THEN o.text ELSE "error reading body") \in Elems(r.val)
        /\ (o.kind = "response" /\ o.status = 200) =>
              IF o.readable /\ (doc = "text" \/ o.doc = doc)
              THEN /\ r.tag = "Ok"
                   /\ CASE doc = "text" -> r.val = o.text
                        [] doc = "deployment" -> r.val = o.deployment
                        [] doc = "map" -> r.val = o.map
              ELSE /\ r.tag = "Err"
                   /\ "200" \in Elems(r.val)
                   /\ \E why \in {"error reading body", "error decoding response body"} :
                         why \in Elems(r.val)

\* get_deployment answered 404 with body "not found"
C4_Witness ==
    /\ IsSome(lastCall)
    /\ Unwrap(lastCall).op = "get_deployment"
    /\ Unwrap(lastCall).outcome.status = 404
    /\ Unwrap(lastCall).result = Err(<<"404", ": ", "not found">>)

\* the path of each operation's endpoint
EndpointOf(op, id) ==
    CASE op = "create_deployment" -> <<"/api/deployment/create">>
      [] op = "deploy" -> <<"/api/deployment/", id, "/deploy">>
      [] op = "get_deployment" -> <<"/api/deployment/", id>>
      [] op = "delete_deployment" -> <<"/api/deployment/", id, "/delete">>
      [] op = "get_deployments" -> <<"/api/deployments">>

\* whether a request carries the constructed Client's token and base URL
Authenticated(op, id, req) ==
    /\ req.auth = Some(<<"Bearer ", Unwrap(built).token>>)
    /\ req.url = Unwrap(built).url \o EndpointOf(op, id)

\* C7: whatever operations run, alone or between the steps of a bulk delete,
\* the Client's base URL and token stay as constructed, and every request
\* carries Authorization: Bearer <token> with that token and goes to the base
\* URL followed by the operation's endpoint path.
C7_ClientIsImmutableAndRequestsAuthenticated ==
    /\ client = built
    /\ IsSome(lastRequest) =>
          Authenticated(Unwrap(lastRequest).op, Unwrap(lastRequest).id,
                        Unwrap(lastRequest).req)
    /\ \A i \in 1..Len(trace) :
          trace[i].ev = "request" =>
              Authenticated(trace[i].op, trace[i].key, Unwrap(trace[i].req))

\* a create_deployment on a clone went out while a bulk delete awaits its
\* second delete
C7_Witness ==
    /\ pc = "awaiting_delete"
    /\ Len(DeleteRequests) = 2
    /\ IsSome(lastRequest)
    /\ Unwrap(lastRequest).op = "create_deployment"
    /\ Unwrap(lastRequest).req.method = "POST"

\* C10: the call's first request is its one get_deployments request, so it
\* precedes every delete; if that request fails the call has returned its
\* error and done nothing more (no delete, no callback); and the call never
\* sends more than one request plus one per matching entry.
C10_ListFirstAndItsFailureReturned ==
    IsSome(bulk) =>
        /\ trace # <<>>
        /\ trace[1].ev = "request"
        /\ trace[1].op = "get_deployments"
        /\ Unwrap(trace[1].req).method = "GET"
        /\ Unwrap(trace[1].req).url = Unwrap(built).url \o <<"/api/deployments">>
        /\ \A i \in 2..Len(trace) : trace[i].op # "get_deployments" \/ i = 2
        /\ Len(trace) >= 2 => (trace[2].op = "get_deployments" /\ trace[2].ev # "request")
        /\ (Len(trace) >= 2 /\ trace[2].ev = "err") =>
              /\ pc = "ready"
              /\ Bulk.result = Some(Err(trace[2].val))
              /\ Len(trace) = 2
        /\ Len(SelectSeq(trace, LAMBDA e : e.ev = "request")) <= 1 + Cardinality(Matching)

\* the list request was answered 404 and the call returned
C10_Witness ==
    /\ Returned
    /\ Len(trace) = 2
    /\ trace[2].ev = "err"
    /\ Bulk.result = Some(Err(<<"404", ": ", "not found">>))

====
